---- MODULE Spec2Model ----
(***************************************************************************)
(* Model of alu.c: a bit-level two's-complement ALU.  A word is a function *)
(* from bit index (0 = least significant) to a bit.  Every operation       *)
(* writes into a caller-supplied result buffer, so the operations are      *)
(* modelled over a memory m that maps buffer names to words: a result      *)
(* buffer that is the same storage as an operand is the same name, and a   *)
(* read sees every earlier write of the same call.                         *)
(***************************************************************************)
EXTENDS Integers, FiniteSets, Sequences, TLC

(* ---- word geometry (alu.h; alu.c hardcodes the same width) ---- *)
wordsize == 32
wordtopbit == wordsize - 1

(* ---- bounds of the model ---- *)
MaxVal == 3        \* operand samples include the integers -MaxVal..MaxVal
MaxCount == 2      \* shift counts include -MaxCount..MaxCount
MaxIter == 40      \* fuel of the multiply loop (more than wordsize)

Bit == {0, 1}

(* a word as an explicit table of its bits: TLC keeps the function         *)
(* [i \in S |-> e] unevaluated and every later EXCEPT as a list on top of  *)
(* it, the table is what a buffer of wordsize bits is                      *)
RECURSIVE Table(_, _)
Table(f, top) == IF top = 0 THEN (0 :> f[0]) ELSE Table(f, top - 1) @@ (top :> f[top])

zeroWord == Table([i \in 0..wordtopbit |-> 0], wordtopbit)
maxWord == Table([i \in 0..wordtopbit |-> IF i = wordtopbit THEN 0 ELSE 1], wordtopbit)
minWord == Table([i \in 0..wordtopbit |-> IF i = wordtopbit THEN 1 ELSE 0], wordtopbit)

(* two's-complement encoding of a small integer v, the operands a caller   *)
(* hands to the library                                                    *)
ToWord(v) ==
  Table([i \in 0..wordtopbit |->
           IF v >= 0
           THEN (IF i = wordtopbit THEN 0 ELSE (v \div (2^i)) % 2)
           ELSE (IF i = wordtopbit THEN 1 ELSE 1 - ((((-v) - 1) \div (2^i)) % 2))],
        wordtopbit)

abs(x) == IF x < 0 THEN -x ELSE x

(* ---- the bit accessor: getBitOfWord, setBitOfWord, setWord, notBit, toBit *)
(* An index outside the word is undefined behaviour: a read yields the     *)
(* bit m.und[b] of whatever lies next to the buffer, a write lands outside  *)
(* the modelled buffers; both are recorded in m.oob.                        *)
InRange(m, b) == 0 <= b /\ b <= m["top"]

Touch(m, b) == IF InRange(m, b) THEN m ELSE [m EXCEPT !["oob"] = TRUE]

getBitOfWord(m, w, b) == IF InRange(m, b) THEN m[w][b] ELSE m["und"][b]

setBitOfWord(m, w, b, v) ==
  IF InRange(m, b) THEN [m EXCEPT ![w][b] = v] ELSE [m EXCEPT !["oob"] = TRUE]

setWord(m, dst, wordval) == [m EXCEPT ![dst] = wordval]

notBit(b) == 1 - b

toBit(r) == r % 2

(* ---- for loops ---- *)
(* TLC evaluates an operator's argument when it is first used; a loop uses *)
(* the memory it starts from before it runs.                               *)
Evaluated(m) == m["oob"] \in BOOLEAN

(* for (b = hi; b >= lo; b--) m = Body(m, b).  The range is split in two   *)
(* halves, run one after the other, which keeps TLC's evaluation shallow.  *)
RECURSIVE ForDown(_, _, _, _)
ForDown(Body(_, _), m, hi, lo) ==
  IF hi < lo \/ ~Evaluated(m) THEN m
  ELSE IF hi = lo THEN Body(m, hi)
  ELSE ForDown(Body, ForDown(Body, m, hi, ((hi + lo) \div 2) + 1),
               (hi + lo) \div 2, lo)

(* for (b = lo; b <= hi; b++) m = Body(m, b) *)
RECURSIVE ForUp(_, _, _, _)
ForUp(Body(_, _), m, lo, hi) ==
  IF hi < lo \/ ~Evaluated(m) THEN m
  ELSE IF hi = lo THEN Body(m, lo)
  ELSE ForUp(Body, ForUp(Body, m, lo, (hi + lo) \div 2),
             ((hi + lo) \div 2) + 1, hi)

(* ---- comparator ---- *)
testLtWord(op) == op[31] = 1

testGeWord(op) == ~(op[31] = 1)

testEqWord(op) == \A b \in 0..wordtopbit : op[b] = 0

(* ---- ashWord ---- *)
(* move upper bits of word right *)
ashMoveRight(m, result, top, c) ==
  ForDown(LAMBDA mm, b : setBitOfWord(Touch(mm, b), result, b - c,
                                      getBitOfWord(mm, "localop", b)),
          m, top - 1, c)

(* clear upper bits of word to sign bit *)
ashFillSign(m, result, top, c, sign) ==
  ForDown(LAMBDA mm, b : setBitOfWord(mm, result, top - b, sign), m, c, 1)

(* move lower bits of word left *)
ashMoveLeft(m, result, top, c) ==
  ForDown(LAMBDA mm, b : setBitOfWord(Touch(mm, b - c), result, b,
                                      getBitOfWord(mm, "localop", b - c)),
          m, top - 1, c)

(* clear lower bits of word, from index hi down *)
clearLow(m, result, hi) ==
  ForDown(LAMBDA mm, b : setBitOfWord(mm, result, b, 0), m, hi, 0)

(* ashSetSign that leaves the top bit as it is *)
ashSetSignSkipped(m, result, top, sign) == m

(* set top bit of word *)
ashSetSign(m, result, top, sign) == setBitOfWord(m, result, top, sign)

(* ashShift that shifts the sign bit like the other bits on a left shift *)
ashShiftLogicalLeft(m1, result, top, count, c, sign) ==
  IF count < 0
  THEN ashSetSign(ashFillSign(ashMoveRight(m1, result, top, c), result, top, c, sign),
                  result, top, sign)
  ELSE clearLow(ashMoveLeft(m1, result, top + 1, c), result, c - 1)

(* after the local copy is taken, with the clamped count c *)
ashShift(m1, result, top, count, c, sign) ==
  ashSetSign(IF count < 0
             THEN ashFillSign(ashMoveRight(m1, result, top, c), result, top, c, sign)
             ELSE clearLow(ashMoveLeft(m1, result, top, c), result, c - 1),
             result, top, sign)

ashCopied(m1, ws, result, count) ==
  ashShift(m1, result, ws - 1, count,
           IF abs(count) >= ws THEN ws - 1 ELSE abs(count),
           getBitOfWord(m1, "localop", ws - 1))

(* ashWord for a word of ws bits (ws = wordsize in the build of alu.h) *)
ashWordN(ws, m, result, op, count) ==
  ashCopied(setWord(m, "localop", m[op]), ws, result, count)

ashWord(m, result, op, count) == ashWordN(wordsize, m, result, op, count)

(* ---- lshWord ---- *)
(* move upper bits of word right *)
lshMoveRight(m, result, c) ==
  ForDown(LAMBDA mm, b : setBitOfWord(Touch(mm, b), result, b - c,
                                      getBitOfWord(mm, "localop", b)),
          m, wordtopbit, c)

(* lshClearHigh that leaves the upper bits as they are *)
lshClearHighSkipped(m, result, c) == m

(* clear upper bits of word to zero *)
lshClearHigh(m, result, c) ==
  ForDown(LAMBDA mm, b : setBitOfWord(mm, result, wordtopbit - b, 0), m, c - 1, 0)

(* move lower bits of word left *)
lshMoveLeft(m, result, c) ==
  ForDown(LAMBDA mm, b : setBitOfWord(Touch(mm, b - c), result, b,
                                      getBitOfWord(mm, "localop", b - c)),
          m, wordtopbit, c)

lshShift(m1, result, count, c) ==
  IF count < 0
  THEN lshClearHigh(lshMoveRight(m1, result, c), result, c)
  ELSE clearLow(lshMoveLeft(m1, result, c), result, c - 1)

lshWord(m, result, op, count) ==
  lshShift(setWord(m, "localop", m[op]), result, count,
           IF abs(count) >= wordsize THEN wordsize - 1 ELSE abs(count))

(* ---- cshWord ---- *)
(* first loop of the branch c < wordsize / 2 *)
cshLowTop(m, result, c) ==
  ForDown(LAMBDA mm, b : setBitOfWord(Touch(mm, b), result, b % (32 - c),
                                      getBitOfWord(mm, "localop", b)),
          m, wordtopbit, wordtopbit - c + 1)

(* second loop of the branch c < wordsize / 2 *)
cshLowRest(m, result, c) ==
  ForDown(LAMBDA mm, p : setBitOfWord(Touch(mm, p), result, (p % (32 - c)) + c,
                                      getBitOfWord(mm, "localop", p)),
          m, wordtopbit - c, c)

(* first loop of the branch c >= wordsize / 2 *)
cshHighTop(m, result, c) ==
  ForDown(LAMBDA mm, b : setBitOfWord(Touch(mm, b), result, b - (32 - c),
                                      getBitOfWord(mm, "localop", b)),
          m, wordtopbit, wordtopbit - c + 1)

(* second loop of the branch c >= wordsize / 2 *)
cshHighRest(m, result, c) ==
  ForDown(LAMBDA mm, p : setBitOfWord(Touch(mm, p), result, (p % c) + c,
                                      getBitOfWord(mm, "localop", p)),
          m, wordtopbit - c, 0)

cshCount(count) == IF abs(count) > 32 THEN abs(count) - 32 ELSE abs(count)

(* the branch c >= wordsize / 2, after the branch c < wordsize / 2 *)
cshHigh(m2, result, c) ==
  IF c >= wordsize \div 2
  THEN cshHighRest(cshHighTop(m2, result, c), result, c)
  ELSE m2

(* the two branches, after the local copy is taken *)
cshRotate(m1, result, c) ==
  cshHigh(IF c < wordsize \div 2
          THEN cshLowRest(cshLowTop(m1, result, c), result, c)
          ELSE m1,
          result, c)

(* after the copy of op into result for a count of 0 or a multiple of 32 *)
cshCopied(m0, result, op, c) ==
  cshRotate(setWord(m0, "localop", m0[op]), result, c)

cshWord(m, result, op, count) ==
  cshCopied(IF (cshCount(count) = 0) \/ (cshCount(count) % 32 = 0)
            THEN setWord(m, result, m[op])
            ELSE m,
            result, op, cshCount(count))

(* ---- maskWord ---- *)
(* copy upper bits of word *)
maskCopyHigh(m, result, op, wtbc) ==
  ForDown(LAMBDA mm, b : setBitOfWord(Touch(mm, b), result, b,
                                      getBitOfWord(mm, op, b)),
          m, wordtopbit, wtbc + 1)

(* copy lower bits of word *)
maskCopyLow(m, result, op, c) ==
  ForUp(LAMBDA mm, b : setBitOfWord(Touch(mm, b), result, b,
                                    getBitOfWord(mm, op, b)),
        m, 0, c - 1)

(* clear upper bits of word *)
maskClearHigh(m, result, c) ==
  ForUp(LAMBDA mm, b : setBitOfWord(mm, result, b, 0), m, c, wordtopbit)

maskCount(count) == IF abs(count) > wordsize THEN wordsize ELSE abs(count)

maskWord(m, result, op, count) ==
  IF count < 0
  THEN clearLow(maskCopyHigh(m, result, op, wordtopbit - maskCount(count)),
                result, wordtopbit - maskCount(count))
  ELSE maskClearHigh(maskCopyLow(m, result, op, maskCount(count)),
                     result, maskCount(count))

(* ---- logic unit ---- *)
andWord(m, result, op1, op2) ==
  ForUp(LAMBDA mm, b :
          setBitOfWord(mm, result, b,
                       IF getBitOfWord(mm, op1, b) = 1 /\ getBitOfWord(mm, op2, b) = 1
                       THEN 1 ELSE 0),
        m, 0, wordtopbit)

orWord(m, result, op1, op2) ==
  ForUp(LAMBDA mm, b :
          setBitOfWord(mm, result, b,
                       IF getBitOfWord(mm, op1, b) = 1 \/ getBitOfWord(mm, op2, b) = 1
                       THEN 1 ELSE 0),
        m, 0, wordtopbit)

xorWord(m, result, op1, op2) ==
  ForUp(LAMBDA mm, b :
          setBitOfWord(mm, result, b,
                       IF getBitOfWord(mm, op1, b) # getBitOfWord(mm, op2, b)
                       THEN 1 ELSE 0),
        m, 0, wordtopbit)

notWord(m, result, op) ==
  ForUp(LAMBDA mm, b : setBitOfWord(mm, result, b, notBit(getBitOfWord(mm, op, b))),
        m, 0, wordtopbit)

(* ---- adder / subtractor ---- *)
(* the loop body, once r (0..3) is computed: the local carry lives in m.carry *)
addStore(m, result, b, r) ==
  [setBitOfWord(m, result, b, toBit(r)) EXCEPT !["carry"] = r \div 2]

addWord(m, result, op1, op2) ==
  ForUp(LAMBDA mm, b :
          addStore(mm, result, b,
                   getBitOfWord(mm, op1, b) + getBitOfWord(mm, op2, b) + mm["carry"]),
        [m EXCEPT !["carry"] = 0], 0, wordtopbit)

subWord(m, result, op1, op2) ==
  ForUp(LAMBDA mm, b :
          addStore(mm, result, b,
                   getBitOfWord(mm, op1, b) + notBit(getBitOfWord(mm, op2, b))
                     + mm["carry"]),
        [m EXCEPT !["carry"] = 1], 0, wordtopbit)

negativeWord(m, result, op) == subWord(m, result, "zeroWord", op)

(* ---- multiplier ---- *)
(* two's-complement magnitude of a local operand whose sign bit is msb *)
mulMagnitude(m, localop, msb) ==
  IF msb = 1 THEN addWord(notWord(m, localop, localop), localop, localop, "one")
  ELSE m

(* one iteration of the shift-and-add loop; m.iters counts the iterations *)
mulIter(m, result) ==
  [lshWord(lshWord(IF getBitOfWord(m, "localop2", 0) # 0
                   THEN addWord(m, result, result, "localop1")
                   ELSE m,
                   "localop1", "localop1", 1),
           "localop2", "localop2", -1)
   EXCEPT !["iters"] = @ + 1]

(* the while loop; it is cut off after MaxIter iterations *)
RECURSIVE mulLoop(_, _)
mulLoop(m, result) ==
  IF testEqWord(m["localop2"]) = FALSE /\ m["iters"] < MaxIter
  THEN mulLoop(mulIter(m, result), result)
  ELSE m

(* mulSign that complements the result without adding one *)
mulSignComplement(m6, result, negativeProduct) ==
  IF negativeProduct THEN notWord(m6, result, result) ELSE m6

(* negate the result if one of the operands is negative *)
mulSign(m6, result, negativeProduct) ==
  IF negativeProduct
  THEN addWord(notWord(m6, result, result), result, result, "one")
  ELSE m6

(* after the local copies, the zeroed result and the word one are set up *)
mulSetUp(m4, result, msb1, msb2) ==
  mulSign(mulLoop(mulMagnitude(mulMagnitude(m4, "localop1", msb1), "localop2", msb2),
                  result),
          result, msb1 # msb2)

mulCopied(m4, result) ==
  mulSetUp(m4, result, getBitOfWord(m4, "localop1", 31), getBitOfWord(m4, "localop2", 31))

(* the second copy is taken after the first: localop1 is a local buffer *)
mulWord(m, result, op1, op2) ==
  mulCopied(setBitOfWord(
              setWord(setWord(setWord(setWord(m, "localop1", m[op1]),
                                      "localop2", m[op2]),
                              result, zeroWord),
                      "one", zeroWord),
              "one", 0, 1),
            result)

(* ---- divider ---- *)
(* trial subtract, after the remainder m1[remainder] has been positioned *)
divTrial(m1, remainder, b) ==
  subWord(setBitOfWord(m1, remainder, 0, getBitOfWord(m1, "w1", b)),
          "test", remainder, "w2")

(* divCommit without the update of the remainder *)
divCommitKeepsRemainder(m3, result, remainder, b) ==
  IF testGeWord(m3["test"]) THEN setBitOfWord(m3, result, b, 1) ELSE m3

(* division successful if the trial m3["test"] is still positive *)
divCommit(m3, result, remainder, b) ==
  IF testGeWord(m3["test"])
  THEN setWord(setBitOfWord(m3, result, b, 1), remainder, m3["test"])
  ELSE m3

(* one iteration of the restoring-division loop, for quotient bit b *)
divIter(m, result, remainder, b) ==
  divCommit(divTrial(lshWord(m, remainder, remainder, 1), remainder, b),
            result, remainder, b)

divLoop(m, result, remainder) ==
  ForDown(LAMBDA mm, b : divIter(mm, result, remainder, b), m, wordtopbit, 0)

(* w1 / w2: the magnitude of an operand *)
divMagnitude(m, w, op) ==
  IF testLtWord(m[op]) THEN negativeWord(m, w, op) ELSE setWord(m, w, m[op])

(* remainder negative if op1 is negative *)
divSignRemainder(m5, remainder, op1) ==
  IF testLtWord(m5[op1]) THEN negativeWord(m5, remainder, remainder) ELSE m5

(* divSigns that leaves the quotient unsigned *)
divSignsRemainderOnly(m4, result, remainder, op1, resultNegative) ==
  divSignRemainder(m4, remainder, op1)

(* set correct sign of result, then of the remainder *)
divSigns(m4, result, remainder, op1, resultNegative) ==
  divSignRemainder(IF resultNegative THEN negativeWord(m4, result, result) ELSE m4,
                   remainder, op1)

(* the branch of a non-zero divisor *)
divNonZero(m1, result, remainder, op1, op2) ==
  divSigns(divLoop(divMagnitude(divMagnitude(m1, "w1", op1), "w2", op2),
                   result, remainder),
           result, remainder, op1,
           testLtWord(m1[op1]) # testLtWord(m1[op2]))

(* divCleared with max-word and min-word exchanged *)
divClearedSwapped(m1, result, remainder, op1, op2) ==
  IF testEqWord(m1[op2])
  THEN setWord(m1, result, IF testGeWord(m1[op1]) THEN minWord ELSE maxWord)
  ELSE divNonZero(m1, result, remainder, op1, op2)

(* after result and remainder have been set to zero *)
divCleared(m1, result, remainder, op1, op2) ==
  IF testEqWord(m1[op2])
  THEN setWord(m1, result, IF testGeWord(m1[op1]) THEN maxWord ELSE minWord)
  ELSE divNonZero(m1, result, remainder, op1, op2)

div2Word(m, result, remainder, op1, op2) ==
  divCleared(setWord(setWord(m, result, zeroWord), remainder, zeroWord),
             result, remainder, op1, op2)

divWord(m, result, op1, op2) == div2Word(m, result, "remainder", op1, op2)

remainderWord(m, result, op1, op2) == div2Word(m, "quotient", result, op1, op2)

(* ---- memory: caller buffers, locals of the operations, constants ---- *)
Caller == {"A", "B", "R", "Q"}

\* shift counts the callers use: small ones, and the ones around the word
\* length, half of it and twice of it
Counts ==
  LET mags == (0..MaxCount) \cup
              {wordsize \div 2 - 1, wordsize \div 2, wordsize \div 2 + 1,
               wordtopbit, wordsize, wordsize + 1,
               2 * wordsize, 2 * wordsize + 1}
  IN mags \cup {-c : c \in mags}

MaxAbsCount == 2 * wordsize + 1

\* indexes below the word that cshWord can read with these counts
UndIdx == (2 * wordsize - MaxAbsCount)..(-1)

\* the frame of a call: the caller's buffers, uninitialised locals (every
\* local is written before it is read), the constant words, the top index of
\* the build's words, and the bookkeeping of out-of-range accesses and loop
\* iterations
Frame(top, mem, und) ==
  [A |-> mem["A"], B |-> mem["B"], R |-> mem["R"], Q |-> mem["Q"],
   localop |-> zeroWord, localop1 |-> zeroWord, localop2 |-> zeroWord,
   one |-> zeroWord, w1 |-> zeroWord, w2 |-> zeroWord, test |-> zeroWord,
   remainder |-> zeroWord, quotient |-> zeroWord,
   zeroWord |-> zeroWord, carry |-> 0,
   top |-> top, oob |-> FALSE, und |-> und, iters |-> 0]

NoUnd == [i \in UndIdx |-> 0]

(* ---- the callers: operand samples and prior contents of result buffers *)
Pattern == Table([i \in 0..wordtopbit |-> IF i % 3 = 1 THEN 1 ELSE 0], wordtopbit)

OperandWords ==
  {ToWord(v) : v \in (-MaxVal)..MaxVal} \cup {minWord, maxWord, Pattern}

PriorWords == {zeroWord, ToWord(-1)}

Nibbles == {Table(f, 3) : f \in [0..3 -> Bit]}

VARIABLES pc, mem, last, oob, iters

vars == <<pc, mem, last, oob, iters>>

NoCall == [op |-> "none", result |-> "R", remainder |-> "Q", count |-> 0,
           before |-> [n \in Caller |-> zeroWord]]

Init ==
  /\ pc = "idle"
  /\ mem = [n \in Caller |-> zeroWord]
  /\ last = NoCall
  /\ oob = FALSE
  /\ iters = 0

\* the caller fills the operand buffers A and B; R and Q hold old contents
Load(a, b, p) ==
  /\ pc = "idle"
  /\ mem' = [n \in Caller |-> CASE n = "A" -> a [] n = "B" -> b [] OTHER -> p]
  /\ pc' = "ready"
  /\ UNCHANGED <<last, oob, iters>>

\* the concrete scenario on a 4-bit word
Load4(a, p) ==
  /\ pc = "idle"
  /\ mem' = [n \in Caller |-> IF n = "A" THEN a ELSE p]
  /\ pc' = "ready4"
  /\ UNCHANGED <<last, oob, iters>>

\* a call returns: the caller's buffers are what the call left in them
Return(name, result, remainder, count, frame) ==
  \E f \in {frame} :
    /\ mem' = [n \in Caller |-> f[n]]
    /\ last' = [op |-> name, result |-> result, remainder |-> remainder,
                count |-> count, before |-> mem]
    /\ oob' = f["oob"]
    /\ iters' = f["iters"]
    /\ pc' = "done"

AshWord4 ==
  /\ pc = "ready4"
  /\ \E count \in -5..5 :
       Return("ashWord4", "R", "Q", count,
              ashWordN(4, Frame(3, mem, NoUnd), "R", "A", count))

AshWord ==
  /\ pc = "ready"
  /\ \E result \in {"R", "A"}, count \in Counts :
       Return("ashWord", result, "Q", count,
              ashWord(Frame(wordtopbit, mem, NoUnd), result, "A", count))

CshWord ==
  /\ pc = "ready"
  /\ \E result \in {"R", "A"}, count \in Counts, und \in [UndIdx -> Bit] :
       Return("cshWord", result, "Q", count,
              cshWord(Frame(wordtopbit, mem, und), result, "A", count))

LshWord ==
  /\ pc = "ready"
  /\ \E result \in {"R", "A"}, count \in Counts :
       Return("lshWord", result, "Q", count,
              lshWord(Frame(wordtopbit, mem, NoUnd), result, "A", count))

MaskWord ==
  /\ pc = "ready"
  /\ \E result \in {"R", "A"}, count \in Counts :
       Return("maskWord", result, "Q", count,
              maskWord(Frame(wordtopbit, mem, NoUnd), result, "A", count))

AndWord ==
  /\ pc = "ready"
  /\ \E result \in {"R", "A", "B"} :
       Return("andWord", result, "Q", 0,
              andWord(Frame(wordtopbit, mem, NoUnd), result, "A", "B"))

OrWord ==
  /\ pc = "ready"
  /\ \E result \in {"R", "A", "B"} :
       Return("orWord", result, "Q", 0,
              orWord(Frame(wordtopbit, mem, NoUnd), result, "A", "B"))

XorWord ==
  /\ pc = "ready"
  /\ \E result \in {"R", "A", "B"} :
       Return("xorWord", result, "Q", 0,
              xorWord(Frame(wordtopbit, mem, NoUnd), result, "A", "B"))

NotWord ==
  /\ pc = "ready"
  /\ \E result \in {"R", "A"} :
       Return("notWord", result, "Q", 0,
              notWord(Frame(wordtopbit, mem, NoUnd), result, "A"))

NegativeWord ==
  /\ pc = "ready"
  /\ \E result \in {"R", "A"} :
       Return("negativeWord", result, "Q", 0,
              negativeWord(Frame(wordtopbit, mem, NoUnd), result, "A"))

AddWord ==
  /\ pc = "ready"
  /\ \E result \in {"R", "A", "B"} :
       Return("addWord", result, "Q", 0,
              addWord(Frame(wordtopbit, mem, NoUnd), result, "A", "B"))

SubWord ==
  /\ pc = "ready"
  /\ \E result \in {"R", "A", "B"} :
       Return("subWord", result, "Q", 0,
              subWord(Frame(wordtopbit, mem, NoUnd), result, "A", "B"))

MulWord ==
  /\ pc = "ready"
  /\ \E result \in {"R", "A", "B"} :
       Return("mulWord", result, "Q", 0,
              mulWord(Frame(wordtopbit, mem, NoUnd), result, "A", "B"))

Div2Word ==
  /\ pc = "ready"
  /\ Return("div2Word", "R", "Q", 0,
            div2Word(Frame(wordtopbit, mem, NoUnd), "R", "Q", "A", "B"))

DivWord ==
  /\ pc = "ready"
  /\ \E result \in {"R", "A", "B"} :
       Return("divWord", result, "Q", 0,
              divWord(Frame(wordtopbit, mem, NoUnd), result, "A", "B"))

RemainderWord ==
  /\ pc = "ready"
  /\ \E result \in {"R", "A", "B"} :
       Return("remainderWord", result, "Q", 0,
              remainderWord(Frame(wordtopbit, mem, NoUnd), result, "A", "B"))

\* the caller is done with the result and starts over
Reset ==
  /\ pc = "done"
  /\ pc' = "idle"
  /\ mem' = [n \in Caller |-> zeroWord]
  /\ last' = NoCall
  /\ oob' = FALSE
  /\ iters' = 0

Next ==
  \/ \E a \in OperandWords, b \in OperandWords, p \in PriorWords : Load(a, b, p)
  \/ \E a \in Nibbles, p \in {Table([i \in 0..3 |-> 0], 3), Table([i \in 0..3 |-> 1], 3)} : Load4(a, p)
  \/ AshWord4
  \/ AshWord
  \/ CshWord
  \/ LshWord
  \/ MaskWord
  \/ AndWord
  \/ OrWord
  \/ XorWord
  \/ NotWord
  \/ NegativeWord
  \/ AddWord
  \/ SubWord
  \/ MulWord
  \/ Div2Word
  \/ DivWord
  \/ RemainderWord
  \/ Reset

Spec == Init /\ [][Next]_vars

(***************************************************************************)
(* Properties                                                              *)
(***************************************************************************)
\* the last call was operation name, and it has returned
Called(name) == pc = "done" /\ last["op"] = name

\* the operand values of the last call
OpA == last["before"]["A"]
OpB == last["before"]["B"]

\* a call of a binary operation on operand values a and b with result and
\* operand buffers all distinct, the result buffer holding prior before
Separate(Op(_, _, _, _), a, b, prior) ==
  Op(Frame(wordtopbit, [A |-> a, B |-> b, R |-> prior, Q |-> prior], NoUnd),
     "R", "A", "B")["R"]

\* ---- C1 ----
DivMulSum(q, a, b, prior) ==
  Separate(addWord, Separate(mulWord, q, b, prior),
           Separate(remainderWord, a, b, prior), prior)

\* C1: for every word a and every non-zero word b, with result buffers
\* distinct from the operands, multiply(divide(a, b), b) + remainder(a, b),
\* computed by mulWord, remainderWord and the wrap-around addWord on the
\* quotient divWord wrote, equals a.
C1_DivMulRemainder ==
  (Called("divWord") /\ last["result"] = "R" /\ ~testEqWord(OpB))
    => DivMulSum(mem["R"], OpA, OpB, last["before"]["R"]) = OpA

\* a division with a non-zero quotient and a non-zero remainder was checked
C1_Witness ==
  /\ Called("divWord") /\ last["result"] = "R" /\ ~testEqWord(OpB)
  /\ ~testEqWord(mem["R"])
  /\ ~testEqWord(Separate(remainderWord, OpA, OpB, zeroWord))
  /\ testLtWord(OpA)

\* ---- C2 ----
DivSeparate == Called("div2Word") /\ last["result"] = "R" /\ last["remainder"] = "Q"

SignXor(a, b) == IF a[wordtopbit] # b[wordtopbit] THEN 1 ELSE 0

C3_DivideByZero ==
  (DivSeparate /\ testEqWord(OpB))
    => /\ mem["R"] = (IF OpA[wordtopbit] = 0 THEN maxWord ELSE minWord)
       /\ mem["Q"] = zeroWord

\* a negative dividend was divided by zero into buffers that held all-ones
C3_Witness ==
  /\ DivSeparate /\ testEqWord(OpB) /\ testLtWord(OpA)
  /\ last["before"]["Q"] = ToWord(-1)
  /\ mem["R"] = minWord

\* ---- C4 ----
\* the last call again, on the same operand values, with the result in the
\* separate buffer R
Rerun(name, m, count) ==
  CASE name = "ashWord" -> ashWord(m, "R", "A", count)
    [] name = "cshWord" -> cshWord(m, "R", "A", count)
    [] name = "lshWord" -> lshWord(m, "R", "A", count)
    [] name = "maskWord" -> maskWord(m, "R", "A", count)
    [] name = "andWord" -> andWord(m, "R", "A", "B")
    [] name = "orWord" -> orWord(m, "R", "A", "B")
    [] name = "xorWord" -> xorWord(m, "R", "A", "B")
    [] name = "notWord" -> notWord(m, "R", "A")
    [] name = "negativeWord" -> negativeWord(m, "R", "A")
    [] name = "addWord" -> addWord(m, "R", "A", "B")
    [] name = "subWord" -> subWord(m, "R", "A", "B")
    [] name = "mulWord" -> mulWord(m, "R", "A", "B")
    [] name = "divWord" -> divWord(m, "R", "A", "B")
    [] name = "remainderWord" -> remainderWord(m, "R", "A", "B")

Aliased ==
  /\ pc = "done"
  /\ last["op"] \notin {"none", "ashWord4", "div2Word"}
  /\ last["result"] # "R"
  /\ ~oob

\* C4: for every operation and every input, a call whose result buffer is
\* the same storage as an operand writes the same result word as a call
\* with a separate result buffer on the same operand values.
C4_AliasingSafe ==
  Aliased =>
    mem[last["result"]]
      = Rerun(last["op"], Frame(wordtopbit, last["before"], NoUnd), last["count"])["R"]

\* ---- C5 ----
\* byte k of a word, as a number
Limb(w, k) ==
  w[8 * k] + 2 * w[8 * k + 1] + 4 * w[8 * k + 2] + 8 * w[8 * k + 3]
    + 16 * w[8 * k + 4] + 32 * w[8 * k + 5] + 64 * w[8 * k + 6] + 128 * w[8 * k + 7]

\* column k of the long multiplication of a and b in base 256, with the
\* carry of the columns below it
RECURSIVE Column(_, _, _)
Column(a, b, k) ==
  (IF k = 0 THEN 0 ELSE Column(a, b, k - 1) \div 256)
    + (IF k >= 0 THEN Limb(a, 0) * Limb(b, k) ELSE 0)
    + (IF k >= 1 THEN Limb(a, 1) * Limb(b, k - 1) ELSE 0)
    + (IF k >= 2 THEN Limb(a, 2) * Limb(b, k - 2) ELSE 0)
    + (IF k >= 3 THEN Limb(a, 3) * Limb(b, k - 3) ELSE 0)

\* C5: for every pair of words a and b, min-word included, mulWord writes
\* the product a*b modulo 2^wordsize (byte k of the result is column k of
\* the product modulo 256).
C5_ProductModulo ==
  (Called("mulWord") /\ last["result"] = "R")
    => \A k \in 0..3 : Limb(mem["R"], k) = Column(OpA, OpB, k) % 256

\* 3 times -3 was computed and gave -9
C5_Witness ==
  /\ Called("mulWord") /\ last["result"] = "R"
  /\ OpA = ToWord(3) /\ OpB = ToWord(-3)
  /\ mem["R"] = ToWord(-9)

\* ---- C6 ----
\* C6: for every word w and every k with 1 <= k < wordsize, cshWord by +k
\* and then cshWord of that result by -k, into a second buffer, returns w.
C6_RotateBack ==
  (Called("cshWord") /\ last["result"] = "R" /\ last["count"] \in 1..wordtopbit)
    => cshWord(Frame(wordtopbit, mem, NoUnd), "Q", "R", -last["count"])["Q"] = OpA

\* ---- C7 ----
\* C7: for every word and every count, each bit index ashWord, lshWord,
\* cshWord and maskWord read or write lies in [0, wordtopbit].
C7_IndexInRange ==
  (pc = "done" /\ last["op"] \in {"ashWord", "lshWord", "cshWord", "maskWord"})
    => ~oob

\* ---- C8 ----
\* C8: for every word w and every count, the sign bit of the result of
\* ashWord equals the sign bit of w.
C8_AshKeepsSign ==
  Called("ashWord") => mem[last["result"]][wordtopbit] = OpA[wordtopbit]

\* a negative word was shifted left into a buffer that held the zero word
C8_Witness ==
  /\ Called("ashWord") /\ last["result"] = "R" /\ last["count"] > 0
  /\ testLtWord(OpA) /\ last["before"]["R"] = zeroWord
  /\ mem["R"][wordtopbit] = 1

\* ---- C9 ----
\* a 4-bit word written most significant bit first
Nibble(b3, b2, b1, b0) == (0 :> b0) @@ (1 :> b1) @@ (2 :> b2) @@ (3 :> b3)

Ash1010By1 ==
  Called("ashWord4") /\ OpA = Nibble(1, 0, 1, 0) /\ last["count"] = 1

\* C9 as stated: on a 4-bit word, arithmetic shift of 1010 by +1 yields 0100.
C9_AsStated == Ash1010By1 => mem["R"] = Nibble(0, 1, 0, 0)

\* C9 (amended): on a 4-bit word, arithmetic shift of 1010 by +1 yields
\* 1100: the bits below the sign bit move up by one, bit 0 is filled with 0,
\* and the sign bit stays the operand's sign bit.
C9_Ash1010By1 == Ash1010By1 => mem["R"] = Nibble(1, 1, 0, 0)

\* the shift was made into a buffer that held 0000
C9_Witness == Ash1010By1 /\ last["before"]["R"] = Nibble(0, 0, 0, 0)

\* ---- C10 ----
\* C10: for every pair of operands the shift-and-add loop of mulWord ends
\* after at most wordsize iterations.
C10_MulLoopBound == Called("mulWord") => iters <= wordsize

\* the multiplier was min-word and the loop took wordsize iterations
C10_Witness == Called("mulWord") /\ OpB = minWord /\ iters = wordsize

====
